---------------------------- MODULE Spec2Model ----------------------------
(***************************************************************************)
(* Jaculus device runtime: the storage command session                     *)
(* (jacStorage/uploaderFeatures/commandImplementation.hpp) and the RTOS    *)
(* timer bridge (jacMachine/features/rtosTimers.hpp).                      *)
(*                                                                         *)
(* Text is modelled as sequences of character codes, files as sequences   *)
(* of bytes, paths as sequences of one-character strings.                  *)
(***************************************************************************)
EXTENDS Integers, Sequences, FiniteSets, TLC

(***************************************************************************)
(* Bounds of the model                                                     *)
(***************************************************************************)
\* bytes handed to addFileChunk between two startFilePush, general session
MaxPush == 2
\* addFileChunk calls between two startFilePush, general session
MaxChunks == 2
\* addFileChunk calls of one upload in the round-trip specification
RTMaxChunks == 4
MaxEntries == 3
\* native timer handle values the platform hands out
NumHandles == 2
\* createTimer calls that create a timer
MaxTimers == 2
\* deferred-invocation requests waiting in the queue
MaxQueue == 2
MaxAdvance == 3

(***************************************************************************)
(* Storage session: paths                                                  *)
(***************************************************************************)
\* a path holds no file, or a file with its bytes
Absent == [exists |-> FALSE, data |-> <<>>]
File(bytes) == [exists |-> TRUE, data |-> bytes]

\* getStoragePrefix(): the mount point of the storage partition
StoragePrefix == <<"/", "s">>

\* workingFilename(): getStoragePrefix() + "/__tmp.txt"
WorkingFilename == StoragePrefix \o <<"/", "_", "_", "t", "m", "p", ".", "t", "x", "t">>

\* fsPath(filename): a leading '/' is kept, otherwise one is inserted
fsPath(filename) ==
    IF Head(filename) # "/" THEN StoragePrefix \o <<"/">> \o filename
                            ELSE StoragePrefix \o filename

\* the file names a command may carry (never empty: front() needs a character)
Filenames == { <<"a">>, <<"/", "a">>, <<"_", "_", "t", "m", "p", ".", "t", "x", "t">> }

Paths == { fsPath(f) : f \in Filenames } \cup { WorkingFilename }

(***************************************************************************)
(* Output sink fragments                                                   *)
(***************************************************************************)
NL == <<10>>
OKNL == <<79, 75, 10>>

yieldString(o, text) == Append(o, [kind |-> "string", data |-> text, msg |-> ""])
yieldBuffer(o, bytes) == Append(o, [kind |-> "buffer", data |-> bytes, msg |-> ""])
yieldError(o, text) == Append(o, [kind |-> "error", data |-> <<>>, msg |-> text])

(***************************************************************************)
(* base64 as mbedtls_base64_encode produces it                             *)
(***************************************************************************)
CHUNK_SIZE == 1023
ENCODED_SIZE == (4 * (CHUNK_SIZE + 2)) \div 3 + 1

Pow64(k) == IF k = 0 THEN 1 ELSE IF k = 1 THEN 64 ELSE IF k = 2 THEN 4096 ELSE 262144

\* the base64 alphabet: A-Z a-z 0-9 + /
Base64Char(v) ==
    IF v < 26 THEN 65 + v
    ELSE IF v < 52 THEN 97 + (v - 26)
    ELSE IF v < 62 THEN 48 + (v - 52)
    ELSE IF v = 62 THEN 43 ELSE 47

\* mutant: the second padding character of a one-byte last group is missing
Base64TextOnePad(src) ==
    LET n == Len(src)
        B(i) == IF i <= n THEN src[i] ELSE 0
    IN [ k \in 1..(4 * ((n + 2) \div 3)) |->
           LET g == (k - 1) \div 4
               j == (k - 1) % 4
               triple == B(3 * g + 1) * 65536 + B(3 * g + 2) * 256 + B(3 * g + 3)
           IN IF j = 3 /\ 3 * g + 3 > n THEN 61
              ELSE Base64Char((triple \div Pow64(3 - j)) % 64) ]

Base64Text(src) ==
    LET n == Len(src)
        B(i) == IF i <= n THEN src[i] ELSE 0
    IN [ k \in 1..(4 * ((n + 2) \div 3)) |->
           LET g == (k - 1) \div 4
               j == (k - 1) % 4
               triple == B(3 * g + 1) * 65536 + B(3 * g + 2) * 256 + B(3 * g + 3)
           IN IF j = 2 /\ 3 * g + 2 > n THEN 61
              ELSE IF j = 3 /\ 3 * g + 3 > n THEN 61
              ELSE Base64Char((triple \div Pow64(3 - j)) % 64) ]

\* slen / 3 + ( slen % 3 != 0 ) for the size_t a byte count converts to:
\* a negative int n is 2^32 + n, and 2^32 = 3 * 1431655765 + 1
Thirds(n) ==
    IF n >= 0 THEN n \div 3 + (IF n % 3 # 0 THEN 1 ELSE 0)
    ELSE 1431655765 + (n + 1) \div 3 + (IF (n + 1) % 3 # 0 THEN 1 ELSE 0)

\* mbedtls_base64_encode(dst, dlen, &olen, src, slen): the groups must not
\* overflow a size_t ((SIZE_MAX - 1) / 4 = 1073741823), and the text and a
\* terminating NUL must fit in dlen
Base64Encode(dlen, src, slen) ==
    LET n == Thirds(slen)
    IN IF n > 1073741823 \/ dlen < 4 * n + 1
       THEN [result |-> "BUFFER_TOO_SMALL", data |-> <<>>]
       ELSE [result |-> "OK", data |-> Base64Text(SubSeq(src, 1, slen))]

(***************************************************************************)
(* State                                                                   *)
(***************************************************************************)
VARIABLES
    fs,          \* path -> file content, or Absent
    workingFd,   \* _workingFd: the pending upload handle, -1 when none
    openW,       \* descriptors open for writing
    openR,       \* descriptors open for reading
    finished,    \* _finished
    pc,          \* position of the session's current command
    out,         \* fragments the current command has written to the sink
    cmd,         \* the command being executed, its argument and locals
    pushed,      \* bytes handed to addFileChunk since the last startFilePush
    upload,      \* history of the pending upload
    timers,      \* native timer handle -> the FreeRTOS timer behind it
    registry,    \* <stash>.timerSlot: timer id -> callback
    queue,       \* deferred invocations scheduled for the scripting loop
    creating,    \* the timer dukCreateTimer has started and not yet registered
    invoking,    \* the dukInvokeTimer frame whose callback is running
    insts,       \* history of every timer created, in creation order
    thrown,      \* the error the last API call raised in the script
    doubleDelete, \* xTimerDelete was given a handle already deleted
    listed,      \* what listDirectory has enumerated for the current list
    initialized, \* RtosTimers::initialize() has run
    startTicks,  \* m_startTicks
    tickCount,   \* the FreeRTOS tick counter, xTaskGetTickCount()
    tickRate,    \* portTICK_RATE_MS of the build
    advances,    \* how often the tick counter has been advanced
    wrapped,     \* the tick counter has wrapped since initialize()
    millisLog    \* the results of the last two calls of millis()

svars == <<fs, workingFd, openW, openR, finished, pc, out, cmd, pushed, upload, listed>>

mvars == <<initialized, startTicks, tickCount, tickRate, advances, wrapped, millisLog>>

tvars == <<timers, registry, queue, creating, invoking, insts, thrown, doubleDelete>>

vars == <<svars, tvars, mvars>>

\* TimerHandle_t values, used as timer ids
Handles == 1..NumHandles

\* a handle with no timer behind it; inst is the createTimer call that made it
NoTimer == [live |-> FALSE, autoReload |-> FALSE, inst |-> 0]

\* no dukInvokeTimer call is on the stack
NoFrame == [id |-> 0, cleanup |-> FALSE, inst |-> 0, cb |-> 0]

NoCmd == [op |-> "none", path |-> <<>>, fd |-> -1, pos |-> 0,
          prior |-> Absent, staged |-> Absent,
          dirOk |-> FALSE, removed |-> FALSE, renamed |-> FALSE, failed |-> FALSE]

NoUpload == [starts |-> 0, clean |-> TRUE, chunks |-> 0, committed |-> TRUE,
             discarded |-> <<>>]

Init ==
    /\ fs = [p \in Paths |-> Absent]
    /\ workingFd = -1
    /\ openW = {}
    /\ openR = {}
    /\ finished = FALSE
    /\ pc = "idle"
    /\ out = <<>>
    /\ cmd = NoCmd
    /\ pushed = <<>>
    /\ upload = NoUpload
    /\ timers = [h \in Handles |-> NoTimer]
    /\ registry = [h \in Handles |-> 0]
    /\ queue = <<>>
    /\ creating = 0
    /\ invoking = NoFrame
    /\ insts = <<>>
    /\ thrown = "none"
    /\ doubleDelete = FALSE
    /\ listed = <<>>
    /\ initialized = FALSE
    /\ startTicks = <<0, 0>>
    /\ tickCount = <<0, 0>>
    /\ tickRate = 1
    /\ advances = 0
    /\ wrapped = FALSE
    /\ millisLog = <<>>

(***************************************************************************)
(* The file system calls                                                   *)
(***************************************************************************)
\* open(): the lowest descriptor not in use
NewFd(used) == CHOOSE n \in 0..Cardinality(used) :
                  /\ n \notin used
                  /\ \A m \in 0..(n - 1) : m \in used

\* close(fd): EBADF (no effect) for a descriptor that is not open
CloseFd(set, fd) == set \ {fd}

\* remove(path)
RemoveFile(f, path) == [f EXCEPT ![path] = Absent]

\* mutant: rename done as a copy that stops one byte short
RenameFileShort(f, from, to) ==
    IF from = to THEN f
    ELSE [f EXCEPT ![to] = File(SubSeq(f[from].data, 1, Len(f[from].data) - 1)),
                   ![from] = Absent]

\* rename(from, to): the destination takes the source's content in one step
RenameFile(f, from, to) ==
    IF from = to THEN f
    ELSE [f EXCEPT ![to] = f[from], ![from] = Absent]

\* mutant: the open lacks O_TRUNC
CreateNoTrunc(f, path) == IF f[path].exists THEN f ELSE [f EXCEPT ![path] = File(<<>>)]

\* open(path, O_TRUNC | O_WRONLY | O_CREAT)
CreateTrunc(f, path) == [f EXCEPT ![path] = File(<<>>)]

\* write(fd, buffer, size) returning written: the first written bytes are
\* appended; a file unlinked while open receives nothing visible
WriteFile(f, path, buffer, written) ==
    IF ~f[path].exists \/ written <= 0 THEN f
    ELSE [f EXCEPT ![path] = File(f[path].data \o SubSeq(buffer, 1, written))]

Min(a, b) == IF a < b THEN a ELSE b

(***************************************************************************)
(* startFilePush                                                           *)
(***************************************************************************)
\* mutant: the pending handle is not closed
StartFilePushNoClose ==
    /\ pc = "idle" /\ ~finished
    /\ pc' = "start_open"
    /\ out' = <<>>
    /\ cmd' = [NoCmd EXCEPT !.op = "start"]
    /\ UNCHANGED <<fs, workingFd, openW, openR, finished, pushed, upload>>
    /\ UNCHANGED <<listed, tvars, mvars>>

\* lines 98-99: a pending handle is closed first
StartFilePush ==
    /\ pc = "idle" /\ ~finished
    /\ openW' = IF workingFd >= 0 THEN CloseFd(openW, workingFd) ELSE openW
    /\ pc' = "start_open"
    /\ out' = <<>>
    /\ cmd' = [NoCmd EXCEPT !.op = "start"]
    /\ UNCHANGED <<fs, workingFd, openR, finished, pushed, upload>>
    /\ UNCHANGED <<listed, tvars, mvars>>

\* lines 100-104: open the working file, truncating it
StartOpen(openOk) ==
    /\ pc = "start_open"
    /\ IF openOk
       THEN LET fd == NewFd(openW \cup openR)
            IN /\ fs' = CreateTrunc(fs, WorkingFilename)
               /\ workingFd' = fd
               /\ openW' = openW \cup {fd}
               /\ out' = out
       ELSE /\ workingFd' = -1
            /\ out' = yieldError(out, "strerror")
            /\ UNCHANGED <<fs, openW>>
    /\ pc' = "idle"
    /\ pushed' = <<>>
    /\ upload' = [starts |-> IF upload.committed THEN 1 ELSE Min(upload.starts + 1, 2),
                  clean |-> openOk, chunks |-> 0, committed |-> FALSE,
                  discarded |-> IF upload.committed THEN <<>> ELSE pushed]
    /\ cmd' = [cmd EXCEPT !.failed = ~openOk]
    /\ UNCHANGED <<openR, finished>>
    /\ UNCHANGED <<listed, tvars, mvars>>

(***************************************************************************)
(* addFileChunk                                                            *)
(***************************************************************************)
\* written is what write() returns: -1, or the number of bytes it took
AddFileChunk(buffer, written) ==
    /\ pc = "idle" /\ ~finished
    /\ cmd' = [NoCmd EXCEPT !.op = "chunk", !.failed = (written < Len(buffer))]
    /\ IF workingFd < 0
       THEN \* assert( _workingFd >= 0 )
            /\ pc' = "aborted"
            /\ out' = <<>>
            /\ UNCHANGED <<fs, pushed, upload>>
       ELSE /\ fs' = WriteFile(fs, WorkingFilename, buffer, written)
            /\ out' = IF written < 0 THEN yieldError(<<>>, "strerror") ELSE <<>>
            /\ pc' = "idle"
            /\ pushed' = pushed \o buffer
            /\ upload' = [upload EXCEPT !.clean = @ /\ written = Len(buffer),
                                        !.chunks = @ + 1]
    /\ UNCHANGED <<workingFd, openW, openR, finished>>
    /\ UNCHANGED <<listed, tvars, mvars>>

(***************************************************************************)
(* commitFilePush                                                          *)
(***************************************************************************)
\* lines 115-118: close the handle, clear it, resolve the destination
CommitFilePush(filename) ==
    /\ pc = "idle" /\ ~finished
    /\ openW' = CloseFd(openW, workingFd)
    /\ workingFd' = -1
    /\ cmd' = [NoCmd EXCEPT !.op = "commit", !.path = fsPath(filename),
                            !.prior = fs[fsPath(filename)],
                            !.staged = fs[WorkingFilename]]
    /\ out' = <<>>
    /\ pc' = "commit_ensure"
    /\ UNCHANGED <<fs, openR, finished, pushed, upload>>
    /\ UNCHANGED <<listed, tvars, mvars>>

\* lines 119-120: jac::fs::ensurePath( path )
CommitEnsurePath(ok) ==
    /\ pc = "commit_ensure"
    /\ out' = IF ok THEN out ELSE yieldError(out, "Cannot create path")
    /\ cmd' = [cmd EXCEPT !.dirOk = ok]
    /\ pc' = "commit_remove"
    /\ UNCHANGED <<fs, workingFd, openW, openR, finished, pushed, upload>>
    /\ UNCHANGED <<listed, tvars, mvars>>

\* line 121: remove( path ), its result ignored
CommitRemove(ok) ==
    /\ pc = "commit_remove"
    /\ ok => fs[cmd.path].exists
    /\ fs' = IF ok THEN RemoveFile(fs, cmd.path) ELSE fs
    /\ cmd' = [cmd EXCEPT !.removed = TRUE]
    /\ pc' = "commit_check"
    /\ UNCHANGED <<workingFd, openW, openR, finished, out, pushed, upload>>
    /\ UNCHANGED <<listed, tvars, mvars>>

\* lines 122-126: the working file must open; assert( fd >= 0 )
CommitCheck(openOk) ==
    /\ pc = "commit_check"
    /\ openOk => fs[WorkingFilename].exists
    /\ pc' = IF openOk THEN "commit_rename" ELSE "aborted"
    /\ cmd' = [cmd EXCEPT !.failed = ~openOk]
    /\ UNCHANGED <<fs, workingFd, openW, openR, finished, out, pushed, upload>>
    /\ UNCHANGED <<listed, tvars, mvars>>

\* lines 127-130: rename, an error fragment when it fails, then "OK\n"
CommitRename(ok) ==
    /\ pc = "commit_rename"
    /\ fs' = IF ok THEN RenameFile(fs, WorkingFilename, cmd.path) ELSE fs
    /\ out' = yieldString(IF ok THEN out ELSE yieldError(out, "Cannot finalize push"),
                          OKNL)
    /\ cmd' = [cmd EXCEPT !.renamed = ok, !.failed = ~ok \/ ~cmd.dirOk]
    /\ upload' = [upload EXCEPT !.committed = TRUE]
    /\ pc' = "idle"
    /\ UNCHANGED <<workingFd, openW, openR, finished, pushed>>
    /\ UNCHANGED <<listed, tvars, mvars>>

(***************************************************************************)
(* remove, exit                                                            *)
(***************************************************************************)
\* mutant: a failed deletion returns after its error fragment
DoRemoveNoOK(filename, ok) ==
    /\ pc = "idle" /\ ~finished
    /\ ok => fs[fsPath(filename)].exists
    /\ fs' = IF ok THEN RemoveFile(fs, fsPath(filename)) ELSE fs
    /\ out' = IF ok THEN yieldString(<<>>, OKNL) ELSE yieldError(<<>>, "strerror")
    /\ cmd' = [NoCmd EXCEPT !.op = "remove", !.path = fsPath(filename), !.failed = ~ok]
    /\ upload' = [upload EXCEPT !.clean = @ /\ ~(ok /\ fsPath(filename) = WorkingFilename)]
    /\ UNCHANGED <<workingFd, openW, openR, finished, pc, pushed>>
    /\ UNCHANGED <<listed, tvars, mvars>>

\* doRemove, lines 90-95
DoRemove(filename, ok) ==
    /\ pc = "idle" /\ ~finished
    /\ ok => fs[fsPath(filename)].exists
    /\ fs' = IF ok THEN RemoveFile(fs, fsPath(filename)) ELSE fs
    /\ out' = yieldString(IF ok THEN <<>> ELSE yieldError(<<>>, "strerror"), OKNL)
    /\ cmd' = [NoCmd EXCEPT !.op = "remove", !.path = fsPath(filename), !.failed = ~ok]
    /\ upload' = [upload EXCEPT !.clean = @ /\ ~(ok /\ fsPath(filename) = WorkingFilename)]
    /\ UNCHANGED <<workingFd, openW, openR, finished, pc, pushed>>
    /\ UNCHANGED <<listed, tvars, mvars>>

PerformExit ==
    /\ pc = "idle" /\ ~finished
    /\ out' = yieldString(<<>>, OKNL)
    /\ finished' = TRUE
    /\ cmd' = [NoCmd EXCEPT !.op = "exit"]
    /\ UNCHANGED <<fs, workingFd, openW, openR, pc, pushed, upload>>
    /\ UNCHANGED <<listed, tvars, mvars>>

(***************************************************************************)
(* pull                                                                    *)
(***************************************************************************)
\* lines 64-75: open the file read-only
DoPull(filename, openOk) ==
    /\ pc = "idle" /\ ~finished
    /\ openOk => fs[fsPath(filename)].exists
    /\ IF openOk
       THEN LET fd == NewFd(openW \cup openR)
            IN /\ openR' = openR \cup {fd}
               /\ cmd' = [NoCmd EXCEPT !.op = "pull", !.path = fsPath(filename), !.fd = fd]
               /\ pc' = "pull_read"
               /\ out' = <<>>
       ELSE /\ out' = yieldError(<<>>, "strerror")
            /\ cmd' = [NoCmd EXCEPT !.op = "pull", !.path = fsPath(filename),
                                    !.failed = TRUE]
            /\ UNCHANGED <<openR, pc>>
    /\ UNCHANGED <<fs, workingFd, openW, finished, pushed, upload>>
    /\ UNCHANGED <<listed, tvars, mvars>>

\* lines 77-87: one read of the loop; a zero read ends it
PullRead(readOk) ==
    /\ pc = "pull_read"
    /\ LET data == fs[cmd.path].data
           bytesRead == IF readOk THEN Min(CHUNK_SIZE, Len(data) - cmd.pos) ELSE -1
           fileBuffer == IF readOk THEN SubSeq(data, cmd.pos + 1, cmd.pos + bytesRead)
                                   ELSE <<>>
           enc == Base64Encode(ENCODED_SIZE, fileBuffer, bytesRead)
       IN IF bytesRead = 0
          THEN /\ out' = yieldString(out, NL)
               /\ openR' = CloseFd(openR, cmd.fd)
               /\ pc' = "idle"
               /\ cmd' = cmd
          ELSE IF enc.result = "BUFFER_TOO_SMALL"
          THEN \* assert( result != MBEDTLS_ERR_BASE64_BUFFER_TOO_SMALL )
               /\ pc' = "aborted"
               /\ cmd' = [cmd EXCEPT !.failed = TRUE]
               /\ UNCHANGED <<out, openR>>
          ELSE /\ out' = yieldBuffer(out, enc.data)
               /\ cmd' = [cmd EXCEPT !.pos = @ + bytesRead]
               /\ UNCHANGED <<openR, pc>>
    /\ UNCHANGED <<fs, workingFd, openW, finished, pushed, upload>>
    /\ UNCHANGED <<listed, tvars, mvars>>

(***************************************************************************)
(* The storage session                                                     *)
(***************************************************************************)
ByteSamples == {0, 255}

\* the buffers addFileChunk is given in the general session: one upload's
\* bytes are all the same sample, two uploads may differ
Chunks == {<<>>} \cup { [i \in 1..n |-> b] : n \in 1..MaxPush, b \in ByteSamples }

Next ==
    \/ StartFilePush
    \/ \E ok \in BOOLEAN : StartOpen(ok)
    \/ \E buffer \in Chunks : \E written \in -1..Len(buffer) :
          /\ Len(pushed) + Len(buffer) <= MaxPush
          /\ upload.chunks < MaxChunks
          /\ IF Len(pushed) = 0 \/ Len(buffer) = 0 THEN TRUE ELSE buffer[1] = pushed[1]
          /\ AddFileChunk(buffer, written)
    \/ \E f \in Filenames : CommitFilePush(f)
    \/ \E ok \in BOOLEAN : CommitEnsurePath(ok)
    \/ \E ok \in BOOLEAN : CommitRemove(ok)
    \/ \E ok \in BOOLEAN : CommitCheck(ok)
    \/ \E ok \in BOOLEAN : CommitRename(ok)
    \/ \E f \in Filenames : \E ok \in BOOLEAN : DoRemove(f, ok)
    \/ \E f \in Filenames : \E ok \in BOOLEAN : DoPull(f, ok)
    \/ \E ok \in BOOLEAN : PullRead(ok)
    \/ PerformExit

Spec == Init /\ [][Next]_vars

(***************************************************************************)
(* Round trip: one upload of up to 2 * CHUNK_SIZE + 1 bytes, split into    *)
(* chunks of several sizes, committed and pulled, every call succeeding    *)
(***************************************************************************)
RTName == <<"a">>

RTChunkLens == {1, 2, CHUNK_SIZE}

\* the bytes of the uploaded file: every byte value occurs, and the content
\* depends on how the upload was split
RTByte(i, c) == (7 * i + 13 * c) % 256

RTBuffer(k) == [ j \in 1..k |-> RTByte(Len(pushed) + j, upload.chunks) ]

RoundTripNext ==
    \/ /\ cmd.op = "none"
       /\ StartFilePush
    \/ StartOpen(TRUE)
    \/ \E k \in RTChunkLens :
          /\ workingFd >= 0
          /\ upload.chunks < RTMaxChunks
          /\ Len(pushed) + k <= 2 * CHUNK_SIZE + 1
          /\ AddFileChunk(RTBuffer(k), k)
    \/ /\ workingFd >= 0
       /\ CommitFilePush(RTName)
    \/ CommitEnsurePath(TRUE)
    \/ CommitRemove(FALSE)
    \/ CommitCheck(TRUE)
    \/ CommitRename(TRUE)
    \/ /\ cmd.op \in {"commit", "pull"}
       /\ DoPull(RTName, TRUE)
    \/ PullRead(TRUE)

RoundTripSpec == Init /\ [][RoundTripNext]_vars

(***************************************************************************)
(* list                                                                    *)
(***************************************************************************)
\* jac::utility::startswith( str, prefix )
startswith(str, prefix) ==
    Len(str) >= Len(prefix) /\ SubSeq(str, 1, Len(prefix)) = prefix

\* strlen( getStoragePrefix() ) + 1
prefixLen == Len(StoragePrefix) + 1

ListNL == <<"\n">>

\* the kinds and names of the entries the directory enumeration reports
FileTypes == {"File", "Directory", "Other"}

EntityNames == {<<"a">>, <<"_", "a">>, <<"_", "_">>,
                <<"_", "_", "t", "m", "p", ".", "t", "x", "t">>}

\* the prefixes list is given
Prefixes == {<<"/">>, <<"/", "d">>}

\* the path listDirectory hands to the entry callback: the directory it was
\* asked to enumerate
EntryPath == cmd.path

\* doList, lines 37-40: listDirectory( getStoragePrefix() + prefix, ... )
DoList(prefix) ==
    /\ pc = "idle" /\ ~finished
    /\ cmd' = [NoCmd EXCEPT !.op = "list", !.path = StoragePrefix \o prefix]
    /\ out' = <<>>
    /\ listed' = <<>>
    /\ pc' = "list_enum"
    /\ UNCHANGED <<fs, workingFd, openW, openR, finished, pushed, upload>>
    /\ UNCHANGED <<tvars, mvars>>

\* mutant: entries are not filtered by name
ListEntryNoFilter(type, path, entityName) ==
    /\ pc = "list_enum"
    /\ Len(listed) < MaxEntries
    /\ listed' = Append(listed, [kind |-> "entry", type |-> type, path |-> path,
                                  name |-> entityName])
    /\ LET marker == IF type = "Directory" THEN <<"D">>
                     ELSE IF type = "File" THEN <<"F">>
                     ELSE <<"?">>
       IN IF prefixLen > Len(path)
          THEN /\ pc' = "aborted"
               /\ out' = yieldString(out, marker)
          ELSE /\ out' = yieldString(yieldString(out, marker),
                                     <<" ">> \o SubSeq(path, prefixLen + 1, Len(path))
                                            \o <<"/">> \o entityName \o ListNL)
               /\ pc' = pc
    /\ UNCHANGED <<fs, workingFd, openW, openR, finished, cmd, pushed, upload>>
    /\ UNCHANGED <<tvars, mvars>>

\* the entry callback, lines 41-54; substr throws std::out_of_range when
\* the path is shorter than prefixLen
ListEntry(type, path, entityName) ==
    /\ pc = "list_enum"
    /\ Len(listed) < MaxEntries
    /\ listed' = Append(listed, [kind |-> "entry", type |-> type, path |-> path,
                                  name |-> entityName])
    /\ IF startswith(entityName, <<"_", "_">>)
       THEN UNCHANGED <<out, pc>>
       ELSE LET marker == IF type = "Directory" THEN <<"D">>
                          ELSE IF type = "File" THEN <<"F">>
                          ELSE <<"?">>
            IN IF prefixLen > Len(path)
               THEN /\ pc' = "aborted"
                    /\ out' = yieldString(out, marker)
               ELSE /\ out' = yieldString(yieldString(out, marker),
                                          <<" ">> \o SubSeq(path, prefixLen + 1, Len(path))
                                                 \o <<"/">> \o entityName \o ListNL)
                    /\ pc' = pc
    /\ UNCHANGED <<fs, workingFd, openW, openR, finished, cmd, pushed, upload>>
    /\ UNCHANGED <<tvars, mvars>>

\* the error callback, lines 56-58
ListError ==
    /\ pc = "list_enum"
    /\ Len(listed) < MaxEntries
    /\ listed' = Append(listed, [kind |-> "error", type |-> "", path |-> <<>>,
                                  name |-> <<>>])
    /\ out' = yieldError(out, "error")
    /\ UNCHANGED <<fs, workingFd, openW, openR, finished, pc, cmd, pushed, upload>>
    /\ UNCHANGED <<tvars, mvars>>

\* listDirectory has returned, line 59: the end-of-listing newline
ListReturn ==
    /\ pc = "list_enum"
    /\ out' = yieldString(out, ListNL)
    /\ pc' = "idle"
    /\ UNCHANGED <<fs, workingFd, openW, openR, finished, cmd, pushed, upload, listed>>
    /\ UNCHANGED <<tvars, mvars>>

\* listings, with and without an upload pending
ListNext ==
    \/ StartFilePush
    \/ \E ok \in BOOLEAN : StartOpen(ok)
    \/ \E prefix \in Prefixes : DoList(prefix)
    \/ \E type \in FileTypes : \E entityName \in EntityNames :
          ListEntry(type, EntryPath, entityName)
    \/ ListError
    \/ ListReturn

ListSpec == Init /\ [][ListNext]_vars

\* a name of the reserved form
Hidden(name) == Len(name) >= 2 /\ name[1] = "_" /\ name[2] = "_"

RECURSIVE ListLines(_)
\* the marker and path line of every entry that is not hidden, and the error
\* fragments, in the order of the enumeration
ListLines(events) ==
    IF events = <<>> THEN <<>>
    ELSE LET e == Head(events)
             rel == SubSeq(e.path, Len(StoragePrefix) + 2, Len(e.path))
             mark == IF e.type = "File" THEN "F"
                     ELSE IF e.type = "Directory" THEN "D" ELSE "?"
         IN (IF e.kind = "error"
                THEN <<[kind |-> "error", data |-> <<>>, msg |-> "error"]>>
             ELSE IF Hidden(e.name) THEN <<>>
             ELSE <<[kind |-> "string", data |-> <<mark>>, msg |-> ""],
                    [kind |-> "string",
                     data |-> <<" ">> \o rel \o <<"/">> \o e.name \o <<"\n">>,
                     msg |-> ""]>>)
            \o ListLines(Tail(events))

Base64Value(ch) ==
    IF ch >= 65 /\ ch <= 90 THEN ch - 65
    ELSE IF ch >= 97 /\ ch <= 122 THEN ch - 97 + 26
    ELSE IF ch >= 48 /\ ch <= 57 THEN ch - 48 + 52
    ELSE IF ch = 43 THEN 62
    ELSE IF ch = 47 THEN 63
    ELSE 0

Pow256(k) == IF k = 0 THEN 1 ELSE IF k = 1 THEN 256 ELSE 65536

\* the bytes a base64 text stands for ('=' pads the last group)
Base64Decode(text) ==
    LET n == Len(text)
        pad == IF n = 0 THEN 0
               ELSE IF text[n] # 61 THEN 0
               ELSE IF text[n - 1] # 61 THEN 1 ELSE 2
    IN [ i \in 1..(3 * (n \div 4) - pad) |->
           LET g == (i - 1) \div 3
               j == (i - 1) % 3
               quad == Base64Value(text[4 * g + 1]) * 262144
                       + Base64Value(text[4 * g + 2]) * 4096
                       + Base64Value(text[4 * g + 3]) * 64
                       + Base64Value(text[4 * g + 4])
           IN (quad \div Pow256(2 - j)) % 256 ]

RECURSIVE DecodeFragments(_)
\* the decoded fragments, one after the other
DecodeFragments(frags) ==
    IF frags = <<>> THEN <<>>
    ELSE Base64Decode(Head(frags).data) \o DecodeFragments(Tail(frags))

PullDone == pc = "idle" /\ cmd.op = "pull" /\ ~cmd.failed

\* C2: after start, chunks and commit with every call succeeding, pull emits
\* buffer fragments, each the base64 text of at most CHUNK_SIZE consecutive
\* file bytes, that decode in order to exactly the bytes pushed, and then a
\* single newline.
C2_RoundTrip ==
    PullDone =>
        /\ Len(out) >= 1
        /\ out[Len(out)] = [kind |-> "string", data |-> NL, msg |-> ""]
        /\ \A i \in 1..(Len(out) - 1) :
              /\ out[i].kind = "buffer"
              /\ Len(Base64Decode(out[i].data)) \in 1..CHUNK_SIZE
        /\ DecodeFragments(SubSeq(out, 1, Len(out) - 1)) = pushed

\* a file of 2 * CHUNK_SIZE + 1 bytes pulled as three fragments
C2_Witness ==
    /\ PullDone
    /\ Len(pushed) = 2 * CHUNK_SIZE + 1
    /\ Len(out) = 4
    /\ upload.clean

(***************************************************************************)
(* commitFilePush and the destination file                                 *)
(***************************************************************************)
CommitSteps == {"commit_ensure", "commit_remove", "commit_check", "commit_rename"}

CommitReturned == pc = "idle" /\ cmd.op = "commit"

\* C1: during and after commitFilePush, whatever the outcome of its
\* directory creation, removal and rename, the destination is absent, the
\* unmodified prior file, or the complete working file; and once the removal
\* step has run and until a rename succeeds it is absent or the prior file.
C1_CommitAtomic ==
    cmd.op = "commit" =>
        /\ fs[cmd.path] \in {Absent, cmd.prior, cmd.staged}
        /\ (cmd.removed /\ ~cmd.renamed) => fs[cmd.path] \in {Absent, cmd.prior}

\* a commit whose rename failed after the prior destination was removed
C1_Witness ==
    /\ CommitReturned
    /\ cmd.removed /\ ~cmd.renamed
    /\ cmd.prior.exists /\ cmd.staged.exists /\ cmd.prior # cmd.staged
    /\ ~fs[cmd.path].exists

\* C3: a startFilePush with an upload pending closes that handle and leaves
\* an empty working file; startFilePush and addFileChunk never create or
\* change a file other than the working file; and a commit of the second
\* upload whose calls all succeed leaves exactly the second upload's bytes.
C3_Discard ==
    [][ /\ (pc = "idle" /\ pc' = "start_open" /\ workingFd >= 0)
            => workingFd \notin openW'
        /\ (pc = "start_open" /\ pc' = "idle" /\ workingFd' >= 0)
            => /\ fs'[WorkingFilename] = File(<<>>)
               /\ openW' = {workingFd'}
        /\ cmd'.op \in {"start", "chunk"}
            => \A p \in Paths \ {WorkingFilename} : fs'[p] = fs[p]
        /\ (pc = "commit_rename" /\ pc' = "idle" /\ cmd'.renamed
               /\ upload.starts = 2 /\ upload.clean)
            => fs'[cmd.path] = File(pushed) ]_vars

\* the first upload's bytes were discarded and the second's committed
C3_Witness ==
    /\ CommitReturned /\ cmd.renamed
    /\ upload.starts = 2 /\ upload.clean
    /\ cmd.path # WorkingFilename
    /\ upload.discarded # <<>> /\ pushed # <<>>
    /\ upload.discarded[1] # pushed[1]
    /\ fs[cmd.path] = File(pushed)

\* C4: at most one upload handle is open and it is the pending one;
\* startFilePush and commitFilePush have closed the pending handle before
\* their next step; no handle is pending after commitFilePush or after a
\* startFilePush whose open failed.
C4_OneHandle ==
    /\ Cardinality(openW) <= 1
    /\ openW \subseteq {workingFd}
    /\ (workingFd >= 0 /\ pc # "start_open") => openW = {workingFd}
    /\ pc = "start_open" => openW = {}
    /\ (pc \in CommitSteps \/ cmd.op = "commit") => (openW = {} /\ workingFd = -1)
    /\ (pc = "idle" /\ cmd.op = "start" /\ cmd.failed) => (openW = {} /\ workingFd = -1)

\* a startFilePush that has just closed the handle of a pending upload
C4_Witness ==
    /\ pc = "start_open"
    /\ workingFd >= 0
    /\ ~upload.committed
    /\ openW = {}

\* C5: no command ends in a failed assertion, unless it is an addFileChunk
\* given no pending handle.
C5_NoFatal == pc = "aborted" => cmd.op = "chunk"

ErrorCount(o) == Cardinality({ i \in 1..Len(o) : o[i].kind = "error" })

HasOK(o) == \E i \in 1..Len(o) : o[i] = [kind |-> "string", data |-> OKNL, msg |-> ""]

\* C6: a commitFilePush that returns has emitted "OK\n" exactly when both the
\* directory creation and the rename succeeded, and otherwise a single error
\* fragment.
C6_ErrorOrOK ==
    CommitReturned =>
        /\ HasOK(out) <=> (cmd.dirOk /\ cmd.renamed)
        /\ ~(cmd.dirOk /\ cmd.renamed) => ErrorCount(out) = 1

(***************************************************************************)
(* remove, addFileChunk and pull when a call fails                         *)
(***************************************************************************)
OKFragment == [kind |-> "string", data |-> OKNL, msg |-> ""]

\* C14: remove(filename) returns with "OK\n" as its last and only OK
\* fragment; when the deletion fails there is exactly one error fragment, in
\* front of it, and the file system is unchanged; when it succeeds the OK is
\* all the output.
C14_RemoveOK ==
    [][ \A f \in Filenames : \A ok \in BOOLEAN :
          DoRemove(f, ok) =>
             /\ pc' = "idle"
             /\ Len(out') >= 1
             /\ out'[Len(out')] = OKFragment
             /\ Cardinality({ i \in 1..Len(out') : out'[i] = OKFragment }) = 1
             /\ IF ok THEN out' = <<OKFragment>>
                      ELSE /\ Len(out') = 2
                           /\ out'[1].kind = "error"
                           /\ fs' = fs ]_vars

\* remove of a path that does not exist has returned
C14_Witness ==
    /\ pc = "idle"
    /\ cmd.op = "remove" /\ cmd.failed
    /\ ~fs[cmd.path].exists
    /\ out = <<[kind |-> "error", data |-> <<>>, msg |-> "strerror"], OKFragment>>

\* C16: an addFileChunk with a pending handle has emitted an error fragment
\* when write() took fewer bytes than it was given or failed, and leaves
\* the handle open and pending.
C16_ShortWriteReported ==
    (cmd.op = "chunk" /\ pc = "idle") =>
        /\ cmd.failed => ErrorCount(out) >= 1
        /\ workingFd >= 0
        /\ openW = {workingFd}

\* C18: a pull whose open succeeded is reading or has returned; when a read
\* failed it has returned with a single error fragment and the file closed;
\* when none failed it has returned with the newline last and the file
\* closed.
C18_PullTerminates ==
    (cmd.op = "pull" /\ cmd.fd >= 0) =>
        /\ pc \in {"pull_read", "idle"}
        /\ cmd.failed => (pc = "idle" /\ ErrorCount(out) = 1)
        /\ pc = "idle" =>
              /\ cmd.fd \notin openR
              /\ ~cmd.failed => out[Len(out)] = [kind |-> "string", data |-> NL, msg |-> ""]

(***************************************************************************)
(* Timer bridge.  The script (its top level, or a timer callback that is   *)
(* running) calls createTimer and deleteTimer on the scripting loop; the   *)
(* FreeRTOS timer service fires timers concurrently with it.               *)
(***************************************************************************)
Periods == {0, 10}

\* the history kept of one created timer
NewInst(h, oneShot) ==
    [h |-> h, oneShot |-> oneShot, registered |-> FALSE, fired |-> FALSE,
     executed |-> FALSE, missed |-> FALSE, delCalled |-> FALSE, delUnfired |-> FALSE,
     delActive |-> FALSE]

\* createTimer( period, oneShot ), lines 67-79: no timer for a zero period
createTimer(period, oneShot) ==
    IF period = 0 THEN NoTimer
    ELSE [live |-> TRUE, autoReload |-> ~oneShot, inst |-> Len(insts) + 1]

\* mutant: a zero period is not rejected
DukCreateTimerZero(period, oneShot) ==
    /\ creating = 0
    /\ Len(insts) < MaxTimers
    /\ \E h \in Handles :
          /\ ~timers[h].live
          /\ timers' = [timers EXCEPT ![h] = [live |-> TRUE, autoReload |-> ~oneShot,
                                              inst |-> Len(insts) + 1]]
          /\ insts' = Append(insts, NewInst(h, oneShot))
    /\ creating' = Len(insts) + 1
    /\ thrown' = "none"
    /\ UNCHANGED <<registry, queue, invoking, doubleDelete>>
    /\ UNCHANGED <<svars, mvars>>

\* dukCreateTimer, lines 102-111: create the native timer and start it
DukCreateTimer(period, oneShot) ==
    /\ creating = 0
    /\ IF period = 0
       THEN \* std::runtime_error
            /\ thrown' = "period"
            /\ UNCHANGED <<timers, creating, insts>>
       ELSE /\ Len(insts) < MaxTimers
            /\ \E h \in Handles :
                  /\ ~timers[h].live
                  /\ timers' = [timers EXCEPT ![h] = createTimer(period, oneShot)]
                  /\ insts' = Append(insts, NewInst(h, oneShot))
            /\ creating' = Len(insts) + 1
            /\ thrown' = "none"
    /\ UNCHANGED <<registry, queue, invoking, doubleDelete>>
    /\ UNCHANGED <<svars, mvars>>

\* mutant: dukCreateTimer returns without storing the callback
DukCreateTimerNoRegister ==
    /\ creating # 0
    /\ creating' = 0
    /\ UNCHANGED <<timers, registry, queue, invoking, insts, thrown, doubleDelete>>
    /\ UNCHANGED <<svars, mvars>>

\* dukCreateTimer, lines 113-120: store the callback under the timer id
DukCreateTimerRegister ==
    /\ creating # 0
    /\ registry' = [registry EXCEPT ![insts[creating].h] = creating]
    /\ insts' = [insts EXCEPT ![creating].registered = TRUE]
    /\ creating' = 0
    /\ UNCHANGED <<timers, queue, invoking, thrown, doubleDelete>>
    /\ UNCHANGED <<svars, mvars>>

\* the history of a call deleteTimer( timerId )
DeleteCalled(timerId) ==
    [k \in 1..Len(insts) |->
        IF insts[k].h # timerId THEN insts[k]
        ELSE [insts[k] EXCEPT
                !.delCalled = TRUE,
                !.delUnfired = @ \/ (/\ timers[timerId].live
                                     /\ timers[timerId].inst = k
                                     /\ insts[k].oneShot
                                     /\ ~insts[k].fired),
                !.delActive = @ \/ (/\ timers[timerId].live
                                    /\ timers[timerId].inst = k)]]

\* mutant: the native timer is deleted without looking the id up
DukDeleteTimerNoGuard(timerId) ==
    /\ creating = 0
    /\ thrown' = "none"
    /\ insts' = DeleteCalled(timerId)
    /\ registry' = [registry EXCEPT ![timerId] = 0]
    /\ IF timers[timerId].live
       THEN /\ timers' = [timers EXCEPT ![timerId].live = FALSE]
            /\ UNCHANGED doubleDelete
       ELSE /\ doubleDelete' = TRUE
            /\ UNCHANGED timers
    /\ UNCHANGED <<queue, creating, invoking>>
    /\ UNCHANGED <<svars, mvars>>

\* dukDeleteTimer, lines 148-164
DukDeleteTimer(timerId) ==
    /\ creating = 0
    /\ thrown' = "none"
    /\ insts' = DeleteCalled(timerId)
    /\ IF registry[timerId] # 0
       THEN /\ registry' = [registry EXCEPT ![timerId] = 0]
            /\ IF timers[timerId].live
               THEN /\ timers' = [timers EXCEPT ![timerId].live = FALSE]
                    /\ UNCHANGED doubleDelete
               ELSE \* xTimerDelete of a handle that was already deleted
                    /\ doubleDelete' = TRUE
                    /\ UNCHANGED timers
       ELSE UNCHANGED <<registry, timers, doubleDelete>>
    /\ UNCHANGED <<queue, creating, invoking>>
    /\ UNCHANGED <<svars, mvars>>

\* self.schedule( ... ), lines 86-90: dukInvokeTimer( timerId, !AutoReload )
schedule(q, h) ==
    Append(q, [id |-> h, cleanup |-> ~timers[h].autoReload, inst |-> timers[h].inst])

\* timerCallback, lines 81-95, in the timer service
TimerCallback(h) ==
    /\ timers[h].live
    /\ Len(queue) < MaxQueue
    /\ queue' = schedule(queue, h)
    /\ timers' = IF ~timers[h].autoReload THEN [timers EXCEPT ![h].live = FALSE]
                                          ELSE timers
    /\ insts' = [insts EXCEPT ![timers[h].inst].fired = TRUE]
    /\ UNCHANGED <<registry, creating, invoking, thrown, doubleDelete>>
    /\ UNCHANGED <<svars, mvars>>

\* the scripting loop is cooperative: it takes a scheduled call only when
\* no script code and no native function is running
LoopIdle == creating = 0 /\ invoking = NoFrame

\* the scripting loop takes the next scheduled call and runs it:
\* dukInvokeTimer, lines 126-136, up to the call of the callback
DukInvokeTimer ==
    /\ LoopIdle
    /\ queue # <<>>
    /\ queue' = Tail(queue)
    /\ LET r == Head(queue)
       IN IF registry[r.id] = 0
          THEN \* duk_require_callable throws: nothing is called or removed
               /\ insts' = [insts EXCEPT ![r.inst].executed = TRUE,
                                         ![r.inst].missed = TRUE]
               /\ UNCHANGED invoking
          ELSE /\ invoking' = [id |-> r.id, cleanup |-> r.cleanup, inst |-> r.inst,
                               cb |-> registry[r.id]]
               /\ insts' = [insts EXCEPT ![r.inst].executed = TRUE]
    /\ UNCHANGED <<timers, registry, creating, thrown, doubleDelete>>
    /\ UNCHANGED <<svars, mvars>>

\* dukInvokeTimer, lines 136-142: the callback returns, or throws through
\* duk_call and skips the cleanup
DukInvokeTimerReturn(throws) ==
    /\ creating = 0
    /\ invoking # NoFrame
    /\ registry' = IF ~throws /\ invoking.cleanup
                   THEN [registry EXCEPT ![invoking.id] = 0]
                   ELSE registry
    /\ invoking' = NoFrame
    /\ UNCHANGED <<timers, queue, creating, insts, thrown, doubleDelete>>
    /\ UNCHANGED <<svars, mvars>>

TimerNext ==
    \/ \E period \in Periods : \E oneShot \in BOOLEAN : DukCreateTimer(period, oneShot)
    \/ DukCreateTimerRegister
    \/ \E timerId \in Handles : DukDeleteTimer(timerId)
    \/ \E h \in Handles : TimerCallback(h)
    \/ DukInvokeTimer
    \/ \E throws \in BOOLEAN : DukInvokeTimerReturn(throws)

TimerSpec == Init /\ [][TimerNext]_vars

(***************************************************************************)
(* Timer bridge: timers, their requests and their callbacks                *)
(***************************************************************************)
Created == 1..Len(insts)

\* timer k's native timer is live
Live(k) == timers[insts[k].h].live /\ timers[insts[k].h].inst = k

\* the requests of timer k that wait in the queue
Pending(k) == { i \in 1..Len(queue) : queue[i].inst = k }

\* C7: whenever the scripting loop takes a deferred invocation for an id,
\* every timer created under that id has its callback registered: no
\* invocation runs between a timer's start and its registration, although
\* the timer may fire in between.
C7_RegisteredBeforeInvoke ==
    [][ (queue # <<>> /\ queue' = Tail(queue))
          => \A k \in Created : insts[k].h = Head(queue).id => insts[k].registered ]_vars

\* a timer has fired between xTimerStart and the registration of its callback
C7_Witness ==
    /\ creating # 0
    /\ Pending(creating) # {}
    /\ registry[insts[creating].h] = 0

\* C8: a one-shot timer the script never deletes fires with a request
\* (id, cleanup) and its native timer is deleted at once; its registry entry
\* stays from registration until the loop executes the request; the request
\* invokes its callback, no other request does, and the entry is gone after
\* that.
C8_OneShotLifecycle ==
    \A k \in Created :
        (insts[k].oneShot /\ ~insts[k].delCalled) =>
            /\ insts[k].fired => ~Live(k)
            /\ \A i \in Pending(k) : queue[i].cleanup /\ queue[i].id = insts[k].h
            /\ Cardinality(Pending(k)) <= 1
            /\ (insts[k].registered /\ ~insts[k].executed)
                  => registry[insts[k].h] = k
            /\ ~insts[k].missed
            /\ invoking.inst = k <=> invoking.cb = k
            /\ (insts[k].executed /\ invoking.inst # k) => registry[insts[k].h] # k

\* C9: an auto-reload timer that is not deleted keeps its registry entry and
\* its native timer through any number of firings; its requests carry no
\* cleanup, and each executed request invokes its callback, once.
C9_AutoReloadKeepsEntry ==
    \A k \in Created :
        (~insts[k].oneShot /\ insts[k].registered /\ ~insts[k].delCalled) =>
            /\ registry[insts[k].h] = k
            /\ Live(k)
            /\ \A i \in Pending(k) : ~queue[i].cleanup
            /\ ~insts[k].missed
            /\ invoking.inst = k <=> invoking.cb = k

\* C10: once deleteTimer(id) has been called on a one-shot timer that had
\* not fired, the timer has no registry entry and no native timer, and no
\* request of it is ever enqueued or executed.
C10_DeletedNeverFires ==
    \A k \in Created :
        insts[k].delUnfired =>
            /\ registry[insts[k].h] # k
            /\ ~Live(k)
            /\ ~insts[k].fired
            /\ Pending(k) = {}
            /\ ~insts[k].executed

\* C11: once deleteTimer(id) has been called on a timer whose native timer
\* was live, that timer is not live, no further request of it is enqueued and
\* its callback is not invoked again; a request already queued stays queued
\* until the loop takes it.
C11_DeleteCancels ==
    [][ \A k \in Created :
          insts'[k].delActive =>
             /\ ~Live(k)'
             /\ registry'[insts[k].h] # k
             /\ insts[k].delActive =>
                   /\ Cardinality(Pending(k)') <= Cardinality(Pending(k))
                   /\ invoking'.cb = k => invoking.cb = k
                   /\ (Pending(k)' # Pending(k)) => queue' = Tail(queue) ]_vars

\* C12: deleteTimer(id) with no registry entry under id leaves the registry,
\* the native timers and the queue as they are and deletes no native timer;
\* after any deleteTimer(id) there is no entry under id, so a second call
\* changes nothing.
C12_DeleteIdempotent ==
    [][ \A id \in Handles :
          DukDeleteTimer(id) =>
             /\ registry[id] = 0 => UNCHANGED <<timers, registry, queue, doubleDelete>>
             /\ registry'[id] = 0 ]_vars

\* deleteTimer was called on the id of the only timer after its one-shot
\* request had run and removed the entry
C12_Witness ==
    /\ Len(insts) = 1
    /\ insts[1].delCalled /\ ~insts[1].delActive
    /\ ~doubleDelete
    /\ registry[insts[1].h] = 0

\* C13: createTimer with a zero period raises an error and creates, starts,
\* registers and enqueues nothing.
C13_ZeroPeriodRejected ==
    [][ \A oneShot \in BOOLEAN :
          DukCreateTimer(0, oneShot) =>
             /\ thrown' = "period"
             /\ UNCHANGED <<timers, registry, queue, creating, insts>> ]_vars

\* a zero period was rejected while another timer is live and registered
C13_Witness ==
    /\ thrown = "period"
    /\ \E k \in Created : Live(k) /\ registry[insts[k].h] = k

\* C19: xTimerDelete is never given a handle whose native timer has already
\* been deleted.
C19_DeleteOnce == ~doubleDelete

\* C20: a request invokes only the callback registered by the createTimer
\* call whose timer produced it, and a live registered timer keeps its entry.
C20_NoStaleRequest ==
    /\ invoking # NoFrame => invoking.cb = invoking.inst
    /\ \A k \in Created :
          (Live(k) /\ insts[k].registered) => registry[insts[k].h] = k

(***************************************************************************)
(* millis.  TickType_t and the product are unsigned 32-bit integers, kept  *)
(* as <<high, low>> halves of 16 bits; the result is a 32-bit int.         *)
(***************************************************************************)
Half == 65536

U32Add(a, b) ==
    LET lo == a[2] + b[2]
    IN <<(a[1] + b[1] + lo \div Half) % Half, lo % Half>>

\* the sum does not fit in 32 bits
U32Carry(a, b) == a[1] + b[1] + (a[2] + b[2]) \div Half >= Half

U32Sub(a, b) ==
    LET borrow == IF a[2] < b[2] THEN 1 ELSE 0
    IN <<(a[1] - b[1] - borrow + Half) % Half, (a[2] - b[2] + Half) % Half>>

U32Mul(a, k) ==
    LET lo == a[2] * k
    IN <<(a[1] * k + lo \div Half) % Half, lo % Half>>

\* (int) of an unsigned 32-bit value
ToInt(a) == IF a[1] < Half \div 2 THEN a[1] * Half + a[2]
                                  ELSE (a[1] - Half) * Half + a[2]

\* the tick count at which initialize() runs, the tick periods in
\* milliseconds a build can have, and the steps the tick counter takes
\* between two calls
BootTicks == {<<0, 0>>, <<0, 100>>, <<65535, 65436>>}

TickRates == {1, 10}

TickSteps == {<<0, 1>>, <<0, 1000>>, <<4096, 0>>, <<16384, 0>>, <<32768, 0>>}

\* initialize, lines 29-35: m_startTicks = xTaskGetTickCount()
Initialize(now, rate) ==
    /\ ~initialized
    /\ initialized' = TRUE
    /\ startTicks' = now
    /\ tickCount' = now
    /\ tickRate' = rate
    /\ UNCHANGED <<advances, wrapped, millisLog>>
    /\ UNCHANGED <<svars, tvars>>

\* the tick interrupt: the counter wraps at 2^32
TickAdvance(step) ==
    /\ initialized
    /\ advances < MaxAdvance
    /\ advances' = advances + 1
    /\ tickCount' = U32Add(tickCount, step)
    /\ wrapped' = (wrapped \/ U32Carry(tickCount, step))
    /\ UNCHANGED <<initialized, startTicks, tickRate, millisLog>>
    /\ UNCHANGED <<svars, tvars>>

\* dukMillis, lines 168-172:
\* (int)( ( xTaskGetTickCount() - m_startTicks ) * portTICK_RATE_MS )
DukMillis ==
    /\ initialized
    /\ LET ticks == U32Sub(tickCount, startTicks)
           r == [ticks |-> ticks, value |-> ToInt(U32Mul(ticks, tickRate))]
       IN millisLog' = IF Len(millisLog) = 2 THEN <<millisLog[2], r>>
                                              ELSE Append(millisLog, r)
    /\ UNCHANGED <<initialized, startTicks, tickCount, tickRate, advances, wrapped>>
    /\ UNCHANGED <<svars, tvars>>

MillisNext ==
    \/ \E now \in BootTicks : \E rate \in TickRates : Initialize(now, rate)
    \/ \E step \in TickSteps : TickAdvance(step)
    \/ DukMillis

MillisSpec == Init /\ [][MillisNext]_vars

\* C17: while the tick counter has not wrapped since initialize(), every
\* result of millis() is the elapsed tick count times the tick period, is
\* not negative, and is not less than the result of the call before it.
C17_MillisMonotonic ==
    ~wrapped =>
        /\ \A i \in 1..Len(millisLog) :
              /\ millisLog[i].value >= 0
              /\ millisLog[i].value % tickRate = 0
              /\ millisLog[i].ticks[1] < Half \div 2
              /\ millisLog[i].value \div tickRate = ToInt(millisLog[i].ticks)
        /\ Len(millisLog) = 2 => millisLog[2].value >= millisLog[1].value

=============================================================================
